---- MODULE Spec2Model ----
(***************************************************************************)
(* Family calendar: the ICS parser with its recurrence expansion           *)
(* (src/utils/ical.ts) and the useCalendars hook that fetches, refreshes   *)
(* and merges the configured feeds (hooks/useCalendars).                   *)
(*                                                                         *)
(* Time is counted in ticks, the smallest unit of an instant (the code's   *)
(* millisecond); a day has DayTicks of them.                               *)
(***************************************************************************)
EXTENDS Integers, Sequences, FiniteSets, TLC

VARIABLES
    pIn,              \* parser run: [cal, vevents], the arguments of parseICSEvents
    ps,               \* parser run: position inside parseICSEvents
    first,            \* parser run: [done, events], the result of the call before
    nz,               \* normalizer run: the text and what parseICS made of it
    wk,               \* week view run: the events, the week start and the view
    rf,               \* refresh run: a calendar configuration and its timer
    nav,              \* week navigation: useState weekStart and the calls made
    config,           \* useState config
    configLoaded,     \* useState configLoaded
    eventsByCalendar, \* useState eventsByCalendar: calendar id -> events
    loading,          \* useState loading
    error,            \* useState error ("" is null)
    localStore,       \* localStorage[STORAGE_KEY]
    mounted,          \* the component using the hook is mounted
    loadPending,      \* fetchConfigFromServer() of the mount effect is in flight
    cancelled,        \* the mount effect's cancelled flag
    timers,           \* the setInterval handles that are not cleared
    render,           \* number of renders that changed config (identifies closures)
    fetches,          \* fetchCalendar calls awaiting fetchOneCalendar
    runs,             \* fetchAll calls awaiting fetchOneCalendar
    issued,           \* number of fetchOneCalendar calls made so far
    clock,            \* the clock, new Date()
    source,           \* history: per calendar id, the number of the fetch that
                      \* produced the stored list (0: none did)
    last              \* history: what the last step did

parseVars == <<pIn, ps, first>>
viewVars == <<nz, wk, rf, nav>>
hookVars == <<config, configLoaded, eventsByCalendar, loading, error, localStore,
              mounted, loadPending, cancelled, timers, render, fetches, runs,
              issued, source, last>>
vars == <<pIn, ps, first, nz, wk, rf, nav, clock, config, configLoaded, eventsByCalendar, loading, error,
          localStore, mounted, loadPending, cancelled, timers, render, fetches,
          runs, issued, source, last>>

----------------------------------------------------------------------------
(* Bounds of the model *)

DayTicks == 6          \* ticks per day
MaxFetches == 3        \* fetchOneCalendar calls per behaviour
MaxConfigChanges == 1  \* config changes per behaviour, the server load apart

----------------------------------------------------------------------------
(* src/utils/ical.ts *)

RECURRENCE_EXPAND_DAYS_PAST == 7
RECURRENCE_EXPAND_DAYS_FUTURE == 90
maxOccurrences == 500

Min(a, b) == IF a < b THEN a ELSE b

\* how often an element occurs in a list
Occurs(e, evs) == Cardinality({i \in 1..Len(evs) : evs[i] = e})

\* A text is a string; Ch(s, i) is its i-th character (from 1).
Ch(s, i) == SubSeq(s, i, i)

\* the byte order mark U+FEFF, written ~ here
BOM == "~"

\* white space, as trim and the regular expressions' \s see it
IsSpace(c) == c \in {" ", "\t", "\n", "\r", "\f", BOM}

\* String.prototype.trimStart / trimEnd / trim
RECURSIVE TrimStart(_)
TrimStart(s) ==
    IF Len(s) > 0 /\ IsSpace(Ch(s, 1)) THEN TrimStart(SubSeq(s, 2, Len(s))) ELSE s

RECURSIVE TrimEnd(_)
TrimEnd(s) ==
    IF Len(s) > 0 /\ IsSpace(Ch(s, Len(s)))
    THEN TrimEnd(SubSeq(s, 1, Len(s) - 1)) ELSE s

Trim(s) == TrimEnd(TrimStart(s))

\* A VEVENT as ICAL.Event presents it.  uid, summary, location: "" when the
\* property is absent.  rule: the recurrence rule, every `interval` ticks,
\* `count` occurrences (0: no COUNT or UNTIL, the rule repeats forever).
VEvent(uid, summary, hasStart, dtstart, dtend, isDate, recurrenceId, recurring, interval, count) ==
    [uid |-> uid, summary |-> summary, location |-> "",
     hasStart |-> hasStart, dtstart |-> dtstart, dtend |-> dtend, isDate |-> isDate,
     recurrenceId |-> recurrenceId,
     recurring |-> recurring, interval |-> interval, count |-> count]

\* event.iterator(): the k-th call of next() (k from 0) returns an occurrence
\* or null; occurrences come in ascending order.
IterHasNext(event, k) == event.count = 0 \/ k < event.count
IterOccurrence(event, k) == event.dtstart + k * event.interval

\* new Date(); setDate(getDate() -/+ days); getTime()
RangeStartTime(now) == now - RECURRENCE_EXPAND_DAYS_PAST * DayTicks
RangeEndTime(now) == now + RECURRENCE_EXPAND_DAYS_FUTURE * DayTicks

\* mutant: the title without the placeholder
SummaryNoPlaceholder(event) == Trim(event.summary)

\* pushEvent: the event it appends
Summary(event) == IF Trim(event.summary) # "" THEN Trim(event.summary) ELSE "(No title)"

EventUid(event, start) ==
    IF event.uid # "" THEN event.uid ELSE ToString(start) \o "-" \o Summary(event)

\* mutant: the id without the occurrence
EventIdNoOccurrence(event, start, calendarId, occurrenceId) ==
    calendarId \o "-" \o EventUid(event, start)

EventId(event, start, calendarId, occurrenceId) ==
    IF occurrenceId # ""
    THEN calendarId \o "-" \o EventUid(event, start) \o "-" \o occurrenceId
    ELSE calendarId \o "-" \o EventUid(event, start)

pushEvent(events, event, start, end, cal, occurrenceId) ==
    Append(events,
           [id |-> EventId(event, start, cal.id, occurrenceId),
            title |-> Summary(event),
            start |-> start,
            end |-> end,
            allDay |-> event.isDate,
            calendarId |-> cal.id,
            calendarName |-> cal.name,
            color |-> cal.color,
            location |-> Trim(event.location)])

\* The position inside parseICSEvents: idx is the VEVENT of the for loop,
\* inLoop says that its while loop is running, k counts the calls of
\* iter.next(), count is the loop's counter, base is the length of events
\* when the while loop was entered.
ParseStart == [idx |-> 1, inLoop |-> FALSE, k |-> 0, count |-> 0, base |-> 0, events |-> <<>>]

\* mutant: the list of events outlives the call
ParseEntryShared(prev) ==
    [idx |-> 1, inLoop |-> FALSE, k |-> 0, count |-> 0, base |-> 0, events |-> prev.events]

\* a call made after the call that ended at prev: const events = [] is local
\* to the call, nothing of the previous call remains
ParseEntry(prev) == ParseStart

NextVEvent(s) == [s EXCEPT !.idx = s.idx + 1, !.inLoop = FALSE, !.k = 0, !.count = 0]

\* mutant: the loop without its cap
WhileConditionNoCap(event, s) == IterHasNext(event, s.k)

\* the loop condition: count < maxOccurrences && (occ = iter.next())
WhileCondition(event, s) == s.count < maxOccurrences /\ IterHasNext(event, s.k)

\* one pass through the body of the while loop, its condition being true
WhileBody(event, cal, now, s) ==
    LET occTimeMs == IterOccurrence(event, s.k)
        t == [s EXCEPT !.k = s.k + 1, !.count = s.count + 1]
    IN  IF occTimeMs > RangeEndTime(now) THEN NextVEvent(t)
        ELSE IF occTimeMs < RangeStartTime(now) THEN t
        ELSE [t EXCEPT !.events =
                 pushEvent(s.events, event, occTimeMs,
                           occTimeMs + (event.dtend - event.dtstart), cal,
                           ToString(occTimeMs))]

\* A malformed VEVENT makes ical.js throw while it is processed: the record
\* has a field throwsAt, 0 when the throw comes in the for body before the
\* while loop or pushEvent (new ICAL.Event, isRecurring, iterator, toJSDate),
\* n > 0 when it comes in the n-th pass of the while loop (iter.next,
\* getOccurrenceDetails).  The catch of the for body ends the record.
Malformed(event, n) ==
    [f \in DOMAIN event \cup {"throwsAt"} |-> IF f = "throwsAt" THEN n ELSE event[f]]

Throws(event, n) == "throwsAt" \in DOMAIN event /\ event.throwsAt = n

\* mutant: the for body without its catch, the throw ends the for loop
ForBodyNoCatch(event, cal, s) ==
    IF event.recurrenceId THEN NextVEvent(s)
    ELSE IF Throws(event, 0) THEN [NextVEvent(s) EXCEPT !.idx = s.idx + maxOccurrences]
    ELSE IF ~event.hasStart THEN NextVEvent(s)
    ELSE IF event.recurring
         THEN [s EXCEPT !.inLoop = TRUE, !.k = 0, !.count = 0, !.base = Len(s.events)]
         ELSE NextVEvent([s EXCEPT !.events =
                  pushEvent(s.events, event, event.dtstart, event.dtend, cal, "")])

\* the body of the for loop up to the while loop
ForBody(event, cal, s) ==
    IF event.recurrenceId THEN NextVEvent(s)
    ELSE IF Throws(event, 0) THEN NextVEvent(s)
    ELSE IF ~event.hasStart THEN NextVEvent(s)
    ELSE IF event.recurring
         THEN [s EXCEPT !.inLoop = TRUE, !.k = 0, !.count = 0, !.base = Len(s.events)]
         ELSE NextVEvent([s EXCEPT !.events =
                  pushEvent(s.events, event, event.dtstart, event.dtend, cal, "")])

ParseDone(vevents, s) == s.idx > Len(vevents)

\* one step of parseICSEvents
ParseStep(vevents, cal, now, s) ==
    LET event == vevents[s.idx]
    IN  IF s.inLoop
        THEN IF s.count < maxOccurrences /\ Throws(event, s.k + 1) THEN NextVEvent(s)
             ELSE IF WhileCondition(event, s) THEN WhileBody(event, cal, now, s)
             ELSE NextVEvent(s)
        ELSE ForBody(event, cal, s)

RECURSIVE RunParse(_, _, _, _)
RunParse(vevents, cal, now, s) ==
    IF ParseDone(vevents, s) THEN s.events
    ELSE RunParse(vevents, cal, now, ParseStep(vevents, cal, now, s))

parseICSEvents(vevents, cal, now) == RunParse(vevents, cal, now, ParseStart)

----------------------------------------------------------------------------
(* src/utils/ical.ts: fixBrokenLineFolding and normalizeICSText, on texts *)

LowerCase == "abcdefghijklmnopqrstuvwxyz"
UpperCase == "ABCDEFGHIJKLMNOPQRSTUVWXYZ"

\* the flag i of a regular expression: characters compare without case
Upper(c) ==
    IF \E i \in 1..Len(LowerCase) : Ch(LowerCase, i) = c
    THEN Ch(UpperCase, CHOOSE i \in 1..Len(LowerCase) : Ch(LowerCase, i) = c)
    ELSE c

\* the upper-case word pat stands in s at position i, whatever the case in s
MatchesAt(s, i, pat) ==
    /\ i + Len(pat) - 1 <= Len(s)
    /\ \A j \in 1..Len(pat) :
          Ch(s, i + j - 1) = Ch(pat, j) \/ Upper(Ch(s, i + j - 1)) = Ch(pat, j)

\* /BEGIN:VCALENDAR/i.test(s)
HasBegin(s) == \E i \in 1..Len(s) : MatchesAt(s, i, "BEGIN:VCALENDAR")

\* /END:VCALENDAR\s*$/im.test(s): with the flag m, $ stands before every line
\* terminator and at the end of the text
HasEnd(s) ==
    \E i \in 1..Len(s) :
        /\ MatchesAt(s, i, "END:VCALENDAR")
        /\ \E q \in (i + 13)..(Len(s) + 1) :
              /\ \A k \in (i + 13)..(q - 1) : IsSpace(Ch(s, k))
              /\ q = Len(s) + 1 \/ Ch(s, q) \in {"\n", "\r"}

\* the matches of /\r\n|\n|\r/g in s: where each starts, and its length
Terminators(s) ==
    {i \in 1..Len(s) :
        Ch(s, i) = "\r" \/ (Ch(s, i) = "\n" /\ ~(i > 1 /\ Ch(s, i - 1) = "\r"))}

TerminatorLen(s, i) == IF Ch(s, i) = "\r" /\ i < Len(s) /\ Ch(s, i + 1) = "\n" THEN 2 ELSE 1

\* lines.join(sep)
RECURSIVE Join(_, _)
Join(lines, sep) ==
    IF Len(lines) = 0 THEN ""
    ELSE IF Len(lines) = 1 THEN lines[1]
    ELSE lines[1] \o sep \o Join(Tail(lines), sep)

\* mutant: a line that begins with a blank or a tab is joined as well
RECURSIVE FoldLinesNoContinuation(_, _, _)
FoldLinesNoContinuation(icsText, lastIndex, lines) ==
    LET rest == {i \in Terminators(icsText) : i >= lastIndex}
    IN  IF rest = {} THEN [lines |-> lines, lastIndex |-> lastIndex]
        ELSE LET m == CHOOSE i \in rest : \A j \in rest : i <= j
                 line == SubSeq(icsText, lastIndex, m - 1)
                 trimmed == TrimStart(line)
                 looksLikeProperty ==
                     \E k \in 1..Len(trimmed) : Ch(trimmed, k) \in {";", ":"}
             IN  FoldLinesNoContinuation(icsText, m + TerminatorLen(icsText, m),
                           IF ~looksLikeProperty /\ Len(trimmed) > 0 /\ Len(lines) > 0
                           THEN [lines EXCEPT ![Len(lines)] = @ \o "\\n" \o trimmed]
                           ELSE Append(lines, line))

\* the while loop of fixBrokenLineFolding from the match at or after lastIndex
\* (a position from 1) on: the lines it leaves and the final lastIndex
RECURSIVE FoldLines(_, _, _)
FoldLines(icsText, lastIndex, lines) ==
    LET rest == {i \in Terminators(icsText) : i >= lastIndex}
    IN  IF rest = {} THEN [lines |-> lines, lastIndex |-> lastIndex]
        ELSE LET m == CHOOSE i \in rest : \A j \in rest : i <= j
                 line == SubSeq(icsText, lastIndex, m - 1)
                 trimmed == TrimStart(line)
                 isContinuation == Len(line) > 0 /\ Ch(line, 1) \in {" ", "\t"}
                 looksLikeProperty ==
                     \E k \in 1..Len(trimmed) : Ch(trimmed, k) \in {";", ":"}
             IN  FoldLines(icsText, m + TerminatorLen(icsText, m),
                           IF ~looksLikeProperty /\ ~isContinuation
                              /\ Len(trimmed) > 0 /\ Len(lines) > 0
                           THEN [lines EXCEPT ![Len(lines)] = @ \o "\\n" \o trimmed]
                           ELSE Append(lines, line))

fixBrokenLineFolding(icsText) ==
    LET r == FoldLines(icsText, 1, <<>>)
    IN  Join(IF r.lastIndex <= Len(icsText)
             THEN Append(r.lines, SubSeq(icsText, r.lastIndex, Len(icsText)))
             ELSE r.lines,
             "\r\n")

normalizeICSText(icsText) ==
    LET s1 == IF Len(icsText) > 0 /\ Ch(icsText, 1) = BOM
              THEN SubSeq(icsText, 2, Len(icsText)) ELSE icsText
        s3 == TrimEnd(fixBrokenLineFolding(s1))
    IN  IF HasBegin(s3) /\ ~HasEnd(s3) THEN s3 \o "\r\nEND:VCALENDAR" ELSE s3

\* the content lines ICAL.parse reads from a text: the lines between the
\* terminators, a line that begins with a blank or a tab being the
\* continuation of the line before
RECURSIVE ContentLines(_, _, _)
ContentLines(text, lastIndex, lines) ==
    LET rest == {i \in Terminators(text) : i >= lastIndex}
        m == IF rest = {} THEN Len(text) + 1 ELSE CHOOSE i \in rest : \A j \in rest : i <= j
        line == SubSeq(text, lastIndex, m - 1)
        next == IF Len(line) > 0 /\ Ch(line, 1) \in {" ", "\t"} /\ Len(lines) > 0
                THEN [lines EXCEPT ![Len(lines)] = @ \o SubSeq(line, 2, Len(line))]
                ELSE IF Len(line) = 0 THEN lines
                ELSE Append(lines, line)
    IN  IF rest = {} THEN next
        ELSE ContentLines(text, m + TerminatorLen(text, m), next)

\* ICAL.parse(text) of ical.js returns a component: every content line has a
\* name ended by ; or :, and every BEGIN has its END (else it throws)
RECURSIVE Nesting(_, _)
Nesting(lines, n) ==
    IF Len(lines) = 0 THEN n
    ELSE IF MatchesAt(lines[Len(lines)], 1, "BEGIN:") THEN Nesting(SubSeq(lines, 1, Len(lines) - 1), n) + 1
    ELSE IF MatchesAt(lines[Len(lines)], 1, "END:") THEN Nesting(SubSeq(lines, 1, Len(lines) - 1), n) - 1
    ELSE Nesting(SubSeq(lines, 1, Len(lines) - 1), n)

IcalParses(text) ==
    LET lines == ContentLines(text, 1, <<>>)
    IN  /\ \A i \in 1..Len(lines) :
              \E k \in 1..Len(lines[i]) : Ch(lines[i], k) \in {";", ":"}
        /\ \A i \in 1..Len(lines) : Nesting(SubSeq(lines, 1, i), 0) >= 0
        /\ Nesting(lines, 0) = 0

----------------------------------------------------------------------------
(* src/utils/ical.ts: parseICS, on a response body.  ICAL.parse is the    *)
(* ical.js library: a body either parses to a calendar component with a    *)
(* list of VEVENTs or makes ICAL.parse throw.                              *)

\* body.begin: the normalized text contains BEGIN:VCALENDAR;
\* body.parses: ICAL.parse accepts it; body.vevents: its VEVENTs.
Body(begin, parses, vevents) == [begin |-> begin, parses |-> parses, vevents |-> vevents]

\* mutant: parseICS without the test for the marker
parseICSNoMarkerTest(body, cal, now) ==
    IF ~body.parses THEN [ok |-> FALSE, events |-> <<>>]
    ELSE [ok |-> TRUE, events |-> parseICSEvents(body.vevents, cal, now)]

\* parseICS: [ok |-> FALSE] when it throws
parseICS(body, cal, now) ==
    IF ~body.begin THEN [ok |-> FALSE, events |-> <<>>]
    ELSE IF ~body.parses THEN [ok |-> FALSE, events |-> <<>>]
    ELSE [ok |-> TRUE, events |-> parseICSEvents(body.vevents, cal, now)]

----------------------------------------------------------------------------
(* hooks/useCalendars *)

DEFAULT_REFRESH_MINUTES == 5
MIN_REFRESH == 1
MAX_REFRESH == 60

\* The values a configuration read from JSON or set by the settings form may
\* hold as refreshMinutes: typeof gives type; a number is NaN or has a value,
\* and every comparison with NaN is false.
JsNumber(n) == [type |-> "number", nan |-> FALSE, value |-> n]
JsNaN == [type |-> "number", nan |-> TRUE, value |-> 0]
JsString(str) == [type |-> "string", nan |-> FALSE, value |-> 0, string |-> str]
JsNull == [type |-> "object", nan |-> FALSE, value |-> 0]

\* refreshMinutes is optional: a configuration without it has no such field
CalendarConfig(id, name, color) ==
    [id |-> id, name |-> name, url |-> "https://feeds/" \o id, color |-> color]

WithRefreshMinutes(cal, n) ==
    [id |-> cal.id, name |-> cal.name, url |-> cal.url, color |-> cal.color,
     refreshMinutes |-> n]

\* mutant: a value out of the range is brought to the nearest bound
getRefreshMinutesClamped(cal) ==
    IF "refreshMinutes" \in DOMAIN cal
       /\ cal.refreshMinutes.type = "number" /\ ~cal.refreshMinutes.nan
    THEN IF cal.refreshMinutes.value < MIN_REFRESH THEN MIN_REFRESH
         ELSE IF cal.refreshMinutes.value > MAX_REFRESH THEN MAX_REFRESH
         ELSE cal.refreshMinutes.value
    ELSE DEFAULT_REFRESH_MINUTES

\* typeof n === 'number' && n >= MIN_REFRESH && n <= MAX_REFRESH
getRefreshMinutes(cal) ==
    IF "refreshMinutes" \in DOMAIN cal
       /\ cal.refreshMinutes.type = "number"
       /\ ~cal.refreshMinutes.nan
       /\ cal.refreshMinutes.value >= MIN_REFRESH
       /\ cal.refreshMinutes.value <= MAX_REFRESH
    THEN cal.refreshMinutes.value
    ELSE DEFAULT_REFRESH_MINUTES

\* The answer of fetch(url): the promise rejects, or resolves with a status
\* and a body.
Rejected == [kind |-> "reject", ok |-> FALSE, body |-> Body(FALSE, FALSE, <<>>)]
Response(ok, body) == [kind |-> "response", ok |-> ok, body |-> body]

\* fetchOneCalendar: [ok |-> FALSE] when it throws
fetchOneCalendar(cal, res, now) ==
    IF res.kind = "reject" THEN [ok |-> FALSE, events |-> <<>>]
    ELSE IF ~res.ok THEN [ok |-> FALSE, events |-> <<>>]
    ELSE parseICS(res.body, cal, now)

Ids(cfg) == {cfg[i].id : i \in 1..Len(cfg)}

\* setError((prev) => prev ? `${prev}; ${cal.name} failed` : `Failed: ${cal.name}`)
ErrorAfterFailure(prev, cal) ==
    IF prev # "" THEN prev \o "; " \o cal.name \o " failed" ELSE "Failed: " \o cal.name

\* mutant: the result of fetchAll holds the fetched calendars alone
FetchAllUpdaterNoPrev(cfg, updates, prev) ==
    [id \in Ids(cfg) |-> IF id \in DOMAIN updates THEN updates[id] ELSE <<>>]

\* mutant: the result of fetchAll prefers what was stored
FetchAllUpdaterPrevFirst(cfg, updates, prev) ==
    [id \in Ids(cfg) |->
        IF id \in DOMAIN prev THEN prev[id]
        ELSE IF id \in DOMAIN updates THEN updates[id]
        ELSE <<>>]

\* the updater fetchAll hands to setEventsByCalendar
FetchAllUpdater(cfg, updates, prev) ==
    [id \in Ids(cfg) |->
        IF id \in DOMAIN updates THEN updates[id]
        ELSE IF id \in DOMAIN prev THEN prev[id]
        ELSE <<>>]

\* mutant: the object with the entry of the calendar alone
FetchCalendarUpdaterAlone(cal, parsed, prev) == [id \in {cal.id} |-> parsed]

\* the updater fetchCalendar hands to setEventsByCalendar: {...prev, [cal.id]: parsed}
FetchCalendarUpdater(cal, parsed, prev) ==
    [id \in DOMAIN prev \cup {cal.id} |-> IF id = cal.id THEN parsed ELSE prev[id]]

\* the timer effect: one setInterval per calendar of config
NewTimers(cfg, r) ==
    {[cal |-> cfg[i], ms |-> getRefreshMinutes(cfg[i]) * 60 * 1000, render |-> r] :
        i \in 1..Len(cfg)}

\* mutant: the effect without its cleanup
TimersAfterRenderNoCleanup(old, cfg, r) == old \cup NewTimers(cfg, r)

\* the timer effect run again for a new config: the cleanup of the previous
\* run clears its timers, then the effect sets the new ones
TimersAfterRender(old, cfg, r) == NewTimers(cfg, r)

\* the orders in which the keys of an object may stand
Orders(ids) ==
    {o \in [1..Cardinality(ids) -> ids] :
        \A i, j \in 1..Cardinality(ids) : i # j => o[i] # o[j]}

\* Object.values(eventsByCalendar) lists the values in the order the keys were
\* inserted; the state does not keep that order, it is some order of the keys
KeyOrder(byCal) == CHOOSE o \in Orders(DOMAIN byCal) : TRUE

\* mutant: the first feed's list instead of all the lists
FlatFirst(byCal, order) == IF Len(order) = 0 THEN <<>> ELSE byCal[order[1]]

\* Object.values(byCal).flat(), the keys standing in the given order
RECURSIVE Flat(_, _)
Flat(byCal, order) ==
    IF Len(order) = 0 THEN <<>>
    ELSE byCal[order[1]] \o Flat(byCal, SubSeq(order, 2, Len(order)))

\* const events = Object.values(eventsByCalendar).flat()
events == Flat(eventsByCalendar, KeyOrder(eventsByCalendar))

----------------------------------------------------------------------------
(* The calendars, configurations and responses the model draws from *)

CalA == CalendarConfig("a", "Home", "red")
CalB == WithRefreshMinutes(CalendarConfig("b", "Work", "blue"), JsNumber(15))
CalC == WithRefreshMinutes(CalendarConfig("c", "School", "green"), JsNumber(90))

Configs == {<<>>, <<CalB>>, <<CalA, CalB>>}

\* what localStorage holds when the hook mounts
LocalConfigs == {<<>>, <<CalA, CalB>>}

\* what fetchConfigFromServer resolves to: null, or the array the server sent
ServerAnswers == {[isArray |-> FALSE, data |-> <<>>]} \cup
                 {[isArray |-> TRUE, data |-> c] : c \in {<<>>, <<CalA, CalB, CalC>>}}

Plain(uid, summary, dtstart) ==
    VEvent(uid, summary, TRUE, dtstart, dtstart + 1, FALSE, FALSE, FALSE, 0, 0)
Recurring(uid, dtstart, interval, count) ==
    VEvent(uid, "Practice", TRUE, dtstart, dtstart + 1, FALSE, FALSE, TRUE, interval, count)

\* bodies of successful responses: two calendars, an HTML page, a broken calendar
BodyOne == Body(TRUE, TRUE, <<Plain("u1", "Dentist", DayTicks)>>)
BodyTwo == Body(TRUE, TRUE, <<Recurring("u2", 0, 7 * DayTicks, 2),
                              Plain("u1", " Lunch ", 2 * DayTicks),
                              Plain("u1", "Lunch moved", 3 * DayTicks)>>)
BodyHtml == Body(FALSE, FALSE, <<>>)
BodyBroken == Body(TRUE, FALSE, <<>>)
\* a VEVENT outside of any VCALENDAR: ICAL.parse would accept it
BodyBare == Body(FALSE, TRUE, <<Plain("u1", "Dentist", DayTicks)>>)

Responses == {Rejected, Response(FALSE, BodyHtml), Response(TRUE, BodyHtml),
              Response(TRUE, BodyBare),
              Response(TRUE, BodyBroken), Response(TRUE, BodyOne), Response(TRUE, BodyTwo)}

Calendars == {CalA, CalB, CalC}
Clocks == {0, 2}

\* fetchOneCalendar on the calendars, responses and clock values above
fetched == [cal \in Calendars, res \in Responses, now \in Clocks |->
               fetchOneCalendar(cal, res, now)]

----------------------------------------------------------------------------
(* The hook as a state machine.  A state update and the render and effects *)
(* it causes are one step.  React drops the state updates of an unmounted  *)
(* component, so a call that resumes after the unmount changes nothing of  *)
(* the state here and its step is not taken.                               *)

\* history: the step taken last.  id, ok, parsed: the calendar whose fetch
\* ended, whether it succeeded, the events it parsed; render: the render that
\* made the call; commit: fetchAll stored its result; updated, failed: the
\* calendars that fetchAll run has fetched and failed to fetch; noMarker: the
\* fetch was answered with a body that has no BEGIN:VCALENDAR; answer: what
\* fetchConfigFromServer resolved to; posted, body: saveConfigToServer was
\* called, and with what.
NoStep == [op |-> "none", id |-> "", ok |-> TRUE, parsed |-> <<>>, render |-> 0,
           commit |-> FALSE, updated |-> {}, failed |-> {}, noMarker |-> FALSE,
           answer |-> [isArray |-> FALSE, data |-> <<>>], posted |-> FALSE, body |-> <<>>]

\* the response is a body without the marker BEGIN:VCALENDAR
NoMarker(res) == res.kind = "response" /\ res.ok /\ ~res.body.begin

\* fetchOneCalendar calls that the running fetchAll calls have yet to make
RECURSIVE Reserved(_)
Reserved(rs) ==
    IF rs = {} THEN 0
    ELSE LET r == CHOOSE x \in rs : TRUE
         IN  (Len(r.cfg) - r.pos) + Reserved(rs \ {r})

CanIssue(n) == issued + Reserved(runs) + n <= MaxFetches

\* history: source after fetchCalendar's update, and after fetchAll's
SourceAfterFetchCalendar(id, ticket) ==
    [x \in DOMAIN source \cup {id} |-> IF x = id THEN ticket ELSE source[x]]

SourceAfterFetchAll(cfg, tickets) ==
    [id \in Ids(cfg) |->
        IF id \in DOMAIN tickets THEN tickets[id]
        ELSE IF id \in DOMAIN source THEN source[id]
        ELSE 0]

\* fetchAll() up to its first await, called by the effect on [configLoaded, fetchAll]
StartFetchAll(cfg, r) ==
    IF Len(cfg) = 0
    THEN /\ eventsByCalendar' = <<>>
         /\ source' = <<>>
         /\ loading' = FALSE
         /\ UNCHANGED <<error, runs, issued>>
    ELSE /\ CanIssue(Len(cfg))
         /\ loading' = TRUE
         /\ error' = ""
         /\ runs' = runs \cup {[cfg |-> cfg, render |-> r, pos |-> 1, ticket |-> issued + 1,
                                updates |-> <<>>, tickets |-> <<>>, failed |-> {}]}
         /\ issued' = issued + 1
         /\ UNCHANGED <<eventsByCalendar, source>>

\* the mount effect's fetchConfigFromServer().then(...).finally(...)
ConfigLoadResolved(answer) ==
    /\ loadPending
    /\ loadPending' = FALSE
    /\ last' = [NoStep EXCEPT
                   !.op = "configLoad", !.answer = answer,
                   !.posted = /\ ~cancelled
                              /\ ~(answer.isArray /\ Len(answer.data) > 0)
                              /\ Len(localStore) > 0,
                   !.body = IF ~cancelled /\ ~(answer.isArray /\ Len(answer.data) > 0)
                            THEN localStore ELSE <<>>]
    /\ UNCHANGED <<mounted, cancelled, fetches, parseVars, viewVars, clock>>
    /\ IF cancelled
       THEN UNCHANGED <<config, configLoaded, eventsByCalendar, loading, error,
                        localStore, timers, render, runs, issued, source>>
       ELSE /\ configLoaded' = TRUE
            /\ IF answer.isArray /\ Len(answer.data) > 0
               THEN /\ config' = answer.data
                    /\ localStore' = answer.data
                    /\ render' = render + 1
                    /\ timers' = TimersAfterRender(timers, answer.data, render + 1)
                    /\ StartFetchAll(answer.data, render + 1)
               ELSE /\ UNCHANGED <<config, localStore, render, timers>>
                    /\ StartFetchAll(config, render)

\* updateConfig(next), called by the settings view
UpdateConfig(next) ==
    /\ mounted
    /\ render < MaxConfigChanges
    /\ config' = next
    /\ localStore' = next
    /\ render' = render + 1
    /\ timers' = TimersAfterRender(timers, next, render + 1)
    /\ IF configLoaded
       THEN StartFetchAll(next, render + 1)
       ELSE UNCHANGED <<eventsByCalendar, loading, error, runs, issued, source>>
    /\ last' = [NoStep EXCEPT !.op = "updateConfig", !.posted = TRUE, !.body = next]
    /\ UNCHANGED <<configLoaded, mounted, loadPending, cancelled, fetches,
                   parseVars, viewVars, clock>>

\* a setInterval callback: fetchCalendar(cal) up to its await
TimerFires(t) ==
    /\ t \in timers
    /\ mounted
    /\ CanIssue(1)
    /\ fetches' = fetches \cup {[cal |-> t.cal, render |-> t.render, ticket |-> issued + 1]}
    /\ issued' = issued + 1
    /\ last' = [NoStep EXCEPT !.op = "timer", !.id = t.cal.id, !.render = t.render]
    /\ UNCHANGED <<config, configLoaded, eventsByCalendar, loading, error, localStore,
                   mounted, loadPending, cancelled, timers, render, runs, source,
                   parseVars, viewVars, clock>>

\* fetchCalendar(cal) after its await: the fetch has succeeded or thrown
FetchCalendarDone(f, res) ==
    LET out == fetched[f.cal, res, clock]
    IN  /\ f \in fetches
        /\ mounted
        /\ fetches' = fetches \ {f}
        /\ eventsByCalendar' =
              IF out.ok THEN FetchCalendarUpdater(f.cal, out.events, eventsByCalendar)
              ELSE eventsByCalendar
        /\ error' = IF out.ok THEN error ELSE ErrorAfterFailure(error, f.cal)
        /\ source' = IF out.ok THEN SourceAfterFetchCalendar(f.cal.id, f.ticket)
                      ELSE source
        /\ last' = [NoStep EXCEPT !.op = "fetchCalendar", !.id = f.cal.id, !.ok = out.ok,
                                  !.parsed = out.events, !.render = f.render,
                                  !.noMarker = NoMarker(res)]
        /\ UNCHANGED <<config, configLoaded, loading, localStore, mounted, loadPending,
                       cancelled, timers, render, runs, issued, parseVars, viewVars, clock>>

\* fetchAll() resumed after an await: one pass of its for loop ends, and then
\* either the next pass runs up to its await or the loop ends and the result
\* is stored
FetchAllResumes(r, res) ==
    LET cal == r.cfg[r.pos]
        out == fetched[cal, res, clock]
        updates == IF out.ok
                   THEN [id \in DOMAIN r.updates \cup {cal.id} |->
                            IF id = cal.id THEN out.events ELSE r.updates[id]]
                   ELSE r.updates
        tickets == IF out.ok
                   THEN [id \in DOMAIN r.tickets \cup {cal.id} |->
                            IF id = cal.id THEN r.ticket ELSE r.tickets[id]]
                   ELSE r.tickets
        failed == IF out.ok THEN r.failed ELSE r.failed \cup {cal.id}
    IN  /\ r \in runs
        /\ mounted
        /\ error' = IF out.ok THEN error ELSE ErrorAfterFailure(error, cal)
        /\ IF r.pos < Len(r.cfg)
           THEN /\ runs' = (runs \ {r}) \cup
                              {[r EXCEPT !.pos = r.pos + 1, !.ticket = issued + 1,
                                         !.updates = updates, !.tickets = tickets,
                                         !.failed = failed]}
                /\ issued' = issued + 1
                /\ UNCHANGED <<eventsByCalendar, loading, source>>
           ELSE /\ runs' = runs \ {r}
                /\ eventsByCalendar' = FetchAllUpdater(r.cfg, updates, eventsByCalendar)
                /\ source' = SourceAfterFetchAll(r.cfg, tickets)
                /\ loading' = FALSE
                /\ UNCHANGED issued
        /\ last' = [op |-> "fetchAll", id |-> cal.id, ok |-> out.ok,
                    parsed |-> out.events, render |-> r.render,
                    commit |-> (r.pos = Len(r.cfg)),
                    updated |-> DOMAIN updates, failed |-> failed,
                    noMarker |-> NoMarker(res)]
        /\ UNCHANGED <<config, configLoaded, localStore, mounted, loadPending, cancelled,
                       timers, render, fetches, parseVars, viewVars, clock>>

\* the component unmounts: the effects' cleanups run
Unmount ==
    /\ mounted
    /\ mounted' = FALSE
    /\ cancelled' = TRUE
    /\ timers' = {}
    /\ last' = [NoStep EXCEPT !.op = "unmount"]
    /\ UNCHANGED <<config, configLoaded, eventsByCalendar, loading, error, localStore,
                   loadPending, render, fetches, runs, issued, source, parseVars, viewVars, clock>>

ParseIdle == /\ pIn = [cal |-> CalA, vevents |-> <<>>]
             /\ ps = ParseStart
             /\ first = [done |-> FALSE, events |-> <<>>]
             /\ clock = 0

\* no normalizer, week view or refresh run
ViewIdle == /\ nz = <<>>
            /\ wk = <<>>
            /\ rf = <<>>
            /\ nav = <<>>

HookIdle ==
    /\ config = <<>>
    /\ localStore = <<>>
    /\ configLoaded = FALSE
    /\ eventsByCalendar = <<>>
    /\ loading = FALSE
    /\ error = ""
    /\ mounted = FALSE
    /\ loadPending = FALSE
    /\ cancelled = FALSE
    /\ timers = {}
    /\ render = 0
    /\ fetches = {}
    /\ runs = {}
    /\ issued = 0
    /\ source = <<>>
    /\ last = NoStep

\* the state after the first render and its effects
Init ==
    /\ ParseIdle
    /\ ViewIdle
    /\ config \in LocalConfigs
    /\ localStore = config
    /\ configLoaded = FALSE
    /\ eventsByCalendar = <<>>
    /\ loading = FALSE
    /\ error = ""
    /\ mounted = TRUE
    /\ loadPending = TRUE
    /\ cancelled = FALSE
    /\ timers = NewTimers(config, 0)
    /\ render = 0
    /\ fetches = {}
    /\ runs = {}
    /\ issued = 0
    /\ source = <<>>
    /\ last = NoStep

Next ==
    \/ \E answer \in ServerAnswers : ConfigLoadResolved(answer)
    \/ \E next \in Configs : UpdateConfig(next)
    \/ \E t \in timers : TimerFires(t)
    \/ \E f \in fetches, res \in Responses : FetchCalendarDone(f, res)
    \/ \E r \in runs, res \in Responses : FetchAllResumes(r, res)
    \/ Unmount

Spec == Init /\ [][Next]_vars

----------------------------------------------------------------------------
(* parseICSEvents step by step, on the VEVENTs of one calendar *)

\* the window is [clock - 7 days, clock + 90 days]
WindowStart == 0 - RECURRENCE_EXPAND_DAYS_PAST * DayTicks
WindowEnd == RECURRENCE_EXPAND_DAYS_FUTURE * DayTicks

Weekly10 == Recurring("w10", DayTicks, 7 * DayTicks, 10)
WeeklyForever == Recurring("wf", WindowStart - 13 * DayTicks, 7 * DayTicks, 0)
TickForever == Recurring("tf", WindowStart, 1, 0)
TickForeverOld == Recurring("old", WindowStart - (maxOccurrences + 100), 1, 0)
TickForeverOlder == Recurring("older", WindowStart - 100, 1, 0)
Tick520 == Recurring("t520", WindowStart, 1, maxOccurrences + 20)
Override == VEvent("w10", "Practice moved", TRUE, 8 * DayTicks, 8 * DayTicks + 1,
                   FALSE, TRUE, FALSE, 0, 0)
NoStart == VEvent("trunc", "Truncated", FALSE, 0, 0, FALSE, FALSE, FALSE, 0, 0)
AllDay == VEvent("", "  ", TRUE, 0 - 30 * DayTicks, 0 - 29 * DayTicks, TRUE, FALSE, FALSE, 0, 0)

ParseInputs ==
    {[cal |-> CalA, vevents |-> v] :
        v \in {<<Weekly10>>, <<WeeklyForever>>, <<TickForever>>, <<TickForeverOld>>,
               <<TickForeverOlder>>, <<Tick520>>,
               <<Override, NoStart, AllDay, Weekly10>>,
               <<Plain("u1", "Dentist", DayTicks), Plain("u1", "Dentist", DayTicks)>>,
               <<Plain("u3", " Lunch ", 2 * DayTicks), AllDay, Plain("", "", 0)>>,
               <<Plain("u4", "Before", DayTicks),
                 Malformed(Plain("u5", "Bad", 2 * DayTicks), 0),
                 Malformed(Weekly10, 0), Plain("u6", "After", 3 * DayTicks)>>,
               <<Malformed(Weekly10, 3), Plain("u6", "After", 3 * DayTicks)>>}}

ParseInit ==
    /\ pIn \in ParseInputs
    /\ ps = ParseStart
    /\ first = [done |-> FALSE, events |-> <<>>]
    /\ clock \in Clocks
    /\ HookIdle
    /\ ViewIdle

\* one step of the running call
ParseRuns ==
    /\ ~ParseDone(pIn.vevents, ps)
    /\ ps' = ParseStep(pIn.vevents, pIn.cal, clock, ps)
    /\ UNCHANGED <<pIn, first, clock, hookVars, viewVars>>

\* the call has returned; parseICSEvents is called again with the same
\* arguments at the same clock value
ParseAgain ==
    /\ ParseDone(pIn.vevents, ps)
    /\ ~first.done
    /\ first' = [done |-> TRUE, events |-> ps.events]
    /\ ps' = ParseEntry(ps)
    /\ UNCHANGED <<pIn, clock, hookVars, viewVars>>

ParseNext == ParseRuns \/ ParseAgain

SpecParse == ParseInit /\ [][ParseNext]_vars

----------------------------------------------------------------------------
(* parseICS on texts: normalizeICSText, the test for the calendar marker,  *)
(* ICAL.parse                                                              *)

\* line terminators of a text
Eols == {"\r\n", "\n", "\r"}

\* the lines of the documents: a calendar, the calendar cut before its last
\* line, two calendars with the second cut, a description that ends with the
\* words of the terminator, a value broken over two lines, a folded line,
\* lower case, a bare VEVENT, an HTML page, nothing, a calendar with a value
\* folded over three lines
DocLines ==
    {<<"BEGIN:VCALENDAR", "BEGIN:VEVENT", "SUMMARY:x", "END:VEVENT", "END:VCALENDAR">>,
     <<"BEGIN:VCALENDAR", "BEGIN:VEVENT", "SUMMARY:x", "END:VEVENT">>,
     <<"BEGIN:VCALENDAR", "END:VCALENDAR",
       "BEGIN:VCALENDAR", "BEGIN:VEVENT", "SUMMARY:x", "END:VEVENT">>,
     <<"BEGIN:VCALENDAR", "BEGIN:VEVENT", "DESCRIPTION:ends with END:VCALENDAR",
       "END:VEVENT">>,
     <<"BEGIN:VCALENDAR", "BEGIN:VEVENT", "LOCATION:Main St", "Calgary Alberta",
       "END:VEVENT", "END:VCALENDAR">>,
     <<"BEGIN:VCALENDAR", "BEGIN:VEVENT", "SUMMARY:x", " y", "END:VEVENT">>,
     <<"BEGIN:VCALENDAR", "BEGIN:VEVENT", "LOCATION:Main St", "Calgary Alberta">>,
     <<"begin:vcalendar", "begin:vevent", "summary:x", "end:vevent", "end:vcalendar">>,
     <<"BEGIN:VEVENT", "SUMMARY:x", "END:VEVENT">>,
     <<"<html>", "<body>Not found</body>", "</html>">>,
     <<>>,
     <<"BEGIN:VCALENDAR", "BEGIN:VEVENT", "SUMMARY:x ", " y", "\tz w", "END:VEVENT",
       "END:VCALENDAR">>}

\* the texts: the lines joined by a terminator, with or without a byte order
\* mark in front and a terminator or blanks at the end
Texts ==
    {head \o Join(lines, eol) \o tail :
        head \in {"", BOM}, lines \in DocLines, eol \in Eols, tail \in {"", "\n", " \r\n"}}

\* the VEVENTs ICAL.parse finds in a text drawn here (it holds one at most)
DocVEvents(text) ==
    IF \E i \in 1..Len(text) : MatchesAt(text, i, "BEGIN:VEVENT")
    THEN <<Plain("u1", "x", DayTicks)>> ELSE <<>>

\* parseICS(icsText, ...): the body it works on
TextBody(icsText) ==
    LET normalized == normalizeICSText(icsText)
    IN  Body(HasBegin(normalized), IcalParses(normalized), DocVEvents(normalized))

TextInit ==
    /\ nz \in {[text |-> t, done |-> FALSE, normalized |-> "",
                out |-> [ok |-> FALSE, events |-> <<>>]] : t \in Texts}
    /\ wk = <<>>
    /\ rf = <<>>
    /\ nav = <<>>
    /\ ParseIdle
    /\ HookIdle

\* parseICS(nz.text, cal.id, cal.name, cal.color)
ParseText ==
    /\ ~nz.done
    /\ nz' = [nz EXCEPT !.done = TRUE,
                        !.normalized = normalizeICSText(nz.text),
                        !.out = parseICS(TextBody(nz.text), CalA, clock)]
    /\ UNCHANGED <<wk, rf, nav, parseVars, clock, hookVars>>

TextNext == ParseText

SpecText == TextInit /\ [][TextNext]_vars

----------------------------------------------------------------------------
(* src/utils/ical.ts: the week view.  Local time has no offset and no      *)
(* daylight saving: a day begins at each multiple of DayTicks, day 0 is    *)
(* Monday 2024-01-01.                                                      *)

WEEKDAY_COUNT == 5

\* the number of the day an instant lies in
DayNumber(d) == (d - (d % DayTicks)) \div DayTicks

\* out.setHours(0, 0, 0, 0)
startOfDay(d) == d - (d % DayTicks)

\* out.setDate(out.getDate() + WEEKDAY_COUNT); out.setHours(23, 59, 59, 999)
endOfWeekdays(start) == startOfDay(start + WEEKDAY_COUNT * DayTicks) + (DayTicks - 1)

\* getFullYear(), getMonth() + 1, getDate() of the n-th day of 2024
MonthDays == <<31, 29, 31, 30, 31, 30, 31, 31, 30, 31, 30, 31>>

RECURSIVE DateOfDay(_, _)
DateOfDay(n, m) ==
    IF n < MonthDays[m] THEN [year |-> 2024, month |-> m, date |-> n + 1]
    ELSE DateOfDay(n - MonthDays[m], m + 1)

\* String(n).padStart(2, '0')
PadStart2(n) == IF n < 10 THEN "0" \o ToString(n) ELSE ToString(n)

toLocalDateKey(d) ==
    LET f == DateOfDay(DayNumber(d), 1)
    IN  ToString(f.year) \o "-" \o PadStart2(f.month) \o "-" \o PadStart2(f.date)

\* mutant: the boundaries of the window belong to it
filterEventsForWeekInclusive(evs, weekStart) ==
    LET start == startOfDay(weekStart)
        end == endOfWeekdays(start)
        Keep(ev) == ev.end >= start /\ ev.start <= end
    IN  SelectSeq(evs, Keep)

filterEventsForWeek(evs, weekStart) ==
    LET start == startOfDay(weekStart)
        end == endOfWeekdays(start)
        Keep(ev) == ev.end > start /\ ev.start < end
    IN  SelectSeq(evs, Keep)

\* mutant: an event goes before the events that start when it starts
InsertSortedBeforeTies(sorted, ev) ==
    LET n == Cardinality({i \in 1..Len(sorted) : sorted[i].start < ev.start})
    IN  SubSeq(sorted, 1, n) \o <<ev>> \o SubSeq(sorted, n + 1, Len(sorted))

\* arr.sort((a, b) => a.start.getTime() - b.start.getTime()) is stable: an
\* event goes behind the events that start no later than it
InsertSorted(sorted, ev) ==
    LET n == Cardinality({i \in 1..Len(sorted) : sorted[i].start <= ev.start})
    IN  SubSeq(sorted, 1, n) \o <<ev>> \o SubSeq(sorted, n + 1, Len(sorted))

RECURSIVE SortByStart(_)
SortByStart(arr) ==
    IF Len(arr) = 0 THEN <<>>
    ELSE InsertSorted(SortByStart(SubSeq(arr, 1, Len(arr) - 1)), arr[Len(arr)])

\* mutant: the day of an event is the day it ends
dayKeyOfEnd(ev) == toLocalDateKey(ev.end)

\* const dayKey = toLocalDateKey(ev.start)
dayKey(ev) == toLocalDateKey(ev.start)

\* the Map groupEventsByDay returns, as a function on the keys
groupEventsByDay(evs, dateKeys) ==
    [key \in {dateKeys[i] : i \in 1..Len(dateKeys)} |->
        LET OfDay(ev) == dayKey(ev) = key
        IN  SortByStart(SelectSeq(evs, OfDay))]

\* mutant: the loop counts from 1
getWeekDateKeysFromOne(weekStart) ==
    [i \in 1..WEEKDAY_COUNT |-> toLocalDateKey(startOfDay(weekStart) + i * DayTicks)]

getWeekDateKeys(weekStart) ==
    [i \in 1..WEEKDAY_COUNT |-> toLocalDateKey(startOfDay(weekStart) + (i - 1) * DayTicks)]

(* The arrays in memory while the hook renders, each under the reference that
   holds it: a calendar id for the list eventsByCalendar keeps, "events",
   "filteredEvents", and a date key for the array the Map of days keeps. *)

\* Object.values(eventsByCalendar).flat() constructs the array of events
flatArrays(arrays, byCal) ==
    [a \in DOMAIN arrays \cup {"events"} |->
        IF a = "events"
        THEN Flat([id \in byCal |-> arrays[id]], KeyOrder([id \in byCal |-> arrays[id]]))
        ELSE arrays[a]]

\* events.filter(...) constructs the array of filteredEvents
filterEventsForWeekArrays(arrays, weekStart) ==
    [a \in DOMAIN arrays \cup {"filteredEvents"} |->
        IF a = "filteredEvents" THEN filterEventsForWeek(arrays["events"], weekStart)
        ELSE arrays[a]]

\* mutant: the sort is applied to the array given
SortedArrayGiven(key) == "filteredEvents"

\* the array the last loop of groupEventsByDay sorts in place for a key: the
\* array the Map holds for it
SortedArray(key) == key

\* groupEventsByDay: an empty array is constructed for every key, the events
\* of the array given are pushed to the array of their day, and the arrays
\* are sorted in place
groupEventsByDayArrays(arrays, dateKeys) ==
    LET keys == {dateKeys[i] : i \in 1..Len(dateKeys)}
        pushed == [a \in DOMAIN arrays \cup keys |->
                      IF a \in keys
                      THEN LET OfDay(ev) == dayKey(ev) = a
                           IN  SelectSeq(arrays["filteredEvents"], OfDay)
                      ELSE arrays[a]]
    IN  [a \in DOMAIN pushed |->
            IF \E key \in keys : SortedArray(key) = a THEN SortByStart(pushed[a])
            ELSE pushed[a]]

\* the arrays after a render over the list of one calendar
RenderArrays(evs, weekStart) ==
    groupEventsByDayArrays(
        filterEventsForWeekArrays(flatArrays([id \in {CalA.id} |-> evs], {CalA.id}),
                                  weekStart),
        getWeekDateKeys(weekStart))

\* a CalendarEvent of the calendar CalA
Event(id, start, end) ==
    [id |-> id, title |-> id, start |-> start, end |-> end, allDay |-> FALSE,
     calendarId |-> CalA.id, calendarName |-> CalA.name, color |-> CalA.color,
     location |-> ""]

\* Monday 2024-01-29, 00:00
Monday == 28 * DayTicks

\* events around the week of that Monday
EventPool ==
    {Event("zero", Monday, Monday),
     Event("night", Monday - 1, Monday + 1),
     Event("span", Monday - 1, Monday + DayTicks + 1),
     Event("before", Monday - 2, Monday),
     Event("wed1", Monday + 2 * DayTicks + 2, Monday + 2 * DayTicks + 3),
     Event("wed2", Monday + 2 * DayTicks + 2, Monday + 2 * DayTicks + 4),
     Event("wed0", Monday + 2 * DayTicks + 1, Monday + 2 * DayTicks + 2),
     Event("fri", Monday + 5 * DayTicks - 1, Monday + 5 * DayTicks),
     Event("sat", Monday + 5 * DayTicks, Monday + 5 * DayTicks + 1),
     Event("satlate", Monday + 6 * DayTicks - 1, Monday + 6 * DayTicks)}

EventLists ==
    {<<>>} \cup {<<a>> : a \in EventPool} \cup {<<a, b>> : a, b \in EventPool}
    \cup {<<a, b, c>> : a, b \in {e \in EventPool : e.start >= Monday + DayTicks},
                         c \in EventPool}

\* the week starts the view is asked for: that Monday at midnight and later
\* in the day, and the Monday before
WeekStarts == {Monday, Monday + 2, Monday - 7 * DayTicks}

WeekInit ==
    /\ wk \in {[events |-> evs, weekStart |-> w, done |-> FALSE,
                 filteredEvents |-> <<>>, weekDateKeys |-> <<>>, days |-> <<>>,
                 arrays |-> [id \in {CalA.id} |-> evs]] :
                evs \in EventLists, w \in WeekStarts}
    /\ nz = <<>>
    /\ rf = <<>>
    /\ nav = <<>>
    /\ ParseIdle
    /\ HookIdle

\* a render of the hook: filteredEvents, weekDateKeys and days
RenderWeek ==
    /\ ~wk.done
    /\ wk' = [wk EXCEPT
                 !.done = TRUE,
                 !.filteredEvents = filterEventsForWeek(wk.events, wk.weekStart),
                 !.weekDateKeys = getWeekDateKeys(wk.weekStart),
                 !.days = groupEventsByDay(filterEventsForWeek(wk.events, wk.weekStart),
                                           getWeekDateKeys(wk.weekStart)),
                 !.arrays = RenderArrays(wk.arrays[CalA.id], wk.weekStart)]
    /\ UNCHANGED <<nz, rf, nav, parseVars, clock, hookVars>>

WeekNext == RenderWeek

SpecWeek == WeekInit /\ [][WeekNext]_vars

----------------------------------------------------------------------------
(* Claims about the week view, checked under SpecWeek *)

\* midnight of the first day of the week asked for
WeekMidnight == wk.weekStart - (wk.weekStart % DayTicks)

\* the event is in the list
IsIn(ev, evs) == \E i \in 1..Len(evs) : evs[i] = ev

\* the events of a list that satisfy a test, in the order of the list
OfList(evs, Test(_)) == SelectSeq(evs, Test)

\* C16: the filter keeps an event iff it ends strictly after midnight of the
\* week start and starts strictly before the end of the window; the events
\* kept stand in their order.  An event from Monday 00:00 to Monday 00:00 is
\* dropped, an event from before Monday 00:00 to after it is kept.
WeekFilterStrict ==
    wk.done =>
        LET InWindow(ev) == ev.end > WeekMidnight /\ ev.start < endOfWeekdays(WeekMidnight)
        IN  /\ wk.filteredEvents = OfList(wk.events, InWindow)
            /\ \A i \in 1..Len(wk.events) :
                  /\ (wk.events[i].start = WeekMidnight /\ wk.events[i].end = WeekMidnight)
                        => ~IsIn(wk.events[i], wk.filteredEvents)
                  /\ (wk.events[i].start = WeekMidnight - 1
                         /\ wk.events[i].end = WeekMidnight + 1)
                        => IsIn(wk.events[i], wk.filteredEvents)

\* C16 witness: of the event at Monday 00:00 and the event across Monday
\* 00:00 the filter has kept the second alone
WeekFilterStrictWitness ==
    /\ wk.done /\ wk.weekStart = Monday + 2
    /\ wk.events = <<Event("zero", Monday, Monday), Event("night", Monday - 1, Monday + 1)>>
    /\ wk.filteredEvents = <<Event("night", Monday - 1, Monday + 1)>>

\* C17: the window of the filter is the five days of the date keys: no event
\* that starts at or after midnight of the sixth day passes the filter.
FiveDayWindow ==
    wk.done =>
        \A i \in 1..Len(wk.filteredEvents) :
            /\ wk.filteredEvents[i].start < WeekMidnight + 5 * DayTicks
            /\ \/ wk.filteredEvents[i].start < WeekMidnight
               \/ IsIn(toLocalDateKey(wk.filteredEvents[i].start), wk.weekDateKeys)

\* the number (1 to 5) of the day of the week an event starts on, 0 if none
StartDay(ev) ==
    IF DayNumber(ev.start) - DayNumber(WeekMidnight) \in 0..4
    THEN DayNumber(ev.start) - DayNumber(WeekMidnight) + 1 ELSE 0

\* C18: an event is in the bucket of the day its start lies on, and in no
\* other; an event that starts on none of the five days is in no bucket, as
\* the event from Sunday to Tuesday, which does pass the filter.
GroupByStartDate ==
    wk.done =>
        /\ DOMAIN wk.days = {wk.weekDateKeys[i] : i \in 1..5}
        /\ \A i, j \in 1..5 : i # j => wk.weekDateKeys[i] # wk.weekDateKeys[j]
        /\ \A n \in 1..Len(wk.filteredEvents), i \in 1..5 :
              LET ev == wk.filteredEvents[n]
              IN  Occurs(ev, wk.days[wk.weekDateKeys[i]]) =
                     IF StartDay(ev) = i THEN Occurs(ev, wk.filteredEvents) ELSE 0
        /\ \A i \in 1..5 : \A n \in 1..Len(wk.days[wk.weekDateKeys[i]]) :
              IsIn(wk.days[wk.weekDateKeys[i]][n], wk.filteredEvents)

\* C18 witness: the event from Sunday to Tuesday has passed the filter and is
\* in no bucket, an event of Wednesday is in Wednesday's bucket
GroupByStartDateWitness ==
    /\ wk.done /\ wk.weekStart = Monday
    /\ IsIn(Event("span", Monday - 1, Monday + DayTicks + 1), wk.filteredEvents)
    /\ \A i \in 1..5 :
          ~IsIn(Event("span", Monday - 1, Monday + DayTicks + 1), wk.days[wk.weekDateKeys[i]])
    /\ Len(wk.days[wk.weekDateKeys[3]]) = 1
    /\ wk.weekDateKeys = <<"2024-01-29", "2024-01-30", "2024-01-31", "2024-02-01",
                           "2024-02-02">>

\* C19: in every bucket the events stand in ascending order of start, and
\* the events of one start stand as they stood in the list given.
BucketOrder ==
    wk.done =>
        \A i \in 1..5 :
            LET bucket == wk.days[wk.weekDateKeys[i]]
            IN  /\ \A n \in 1..Len(bucket) - 1 : bucket[n].start <= bucket[n + 1].start
                /\ \A n \in 1..Len(bucket) :
                      LET SameStart(ev) == ev.start = bucket[n].start
                          SameStartAndDay(ev) == ev.start = bucket[n].start /\ StartDay(ev) = i
                      IN  OfList(bucket, SameStart) = OfList(wk.filteredEvents, SameStartAndDay)

\* C19 witness: two events of one start and an earlier event given after them
\* stand in Wednesday's bucket, the earlier first, the two in their order
BucketOrderWitness ==
    /\ wk.done /\ wk.weekStart = Monday
    /\ wk.events = <<Event("wed2", Monday + 2 * DayTicks + 2, Monday + 2 * DayTicks + 4),
                     Event("wed1", Monday + 2 * DayTicks + 2, Monday + 2 * DayTicks + 3),
                     Event("wed0", Monday + 2 * DayTicks + 1, Monday + 2 * DayTicks + 2)>>
    /\ wk.days[wk.weekDateKeys[3]] =
          <<Event("wed0", Monday + 2 * DayTicks + 1, Monday + 2 * DayTicks + 2),
            Event("wed2", Monday + 2 * DayTicks + 2, Monday + 2 * DayTicks + 4),
            Event("wed1", Monday + 2 * DayTicks + 2, Monday + 2 * DayTicks + 3)>>

\* the local dates of the five days from the week start, as the calendar of
\* 2024 has them
DatesFromWeekStart ==
    IF DayNumber(wk.weekStart) = 28
    THEN <<"2024-01-29", "2024-01-30", "2024-01-31", "2024-02-01", "2024-02-02">>
    ELSE IF DayNumber(wk.weekStart) = 21
    THEN <<"2024-01-22", "2024-01-23", "2024-01-24", "2024-01-25", "2024-01-26">>
    ELSE <<>>

\* C28: the date keys are five distinct keys, the local dates of the day of
\* the week start and the four days after it, in that order; the Map of days
\* has those keys and no other, with an empty list for a day no event starts
\* on; a filtered event that starts on one of the five days is in one bucket
\* and no second.
DateKeysAlign ==
    wk.done =>
        /\ Len(wk.weekDateKeys) = 5
        /\ wk.weekDateKeys = DatesFromWeekStart
        /\ Cardinality({wk.weekDateKeys[i] : i \in 1..5}) = 5
        /\ DOMAIN wk.days = {DatesFromWeekStart[i] : i \in 1..5}
        /\ \A i \in 1..5 :
              (\A n \in 1..Len(wk.filteredEvents) : StartDay(wk.filteredEvents[n]) # i)
                  => wk.days[DatesFromWeekStart[i]] = <<>>
        /\ \A n \in 1..Len(wk.filteredEvents) :
              StartDay(wk.filteredEvents[n]) \in 1..5 =>
                  Cardinality({key \in DOMAIN wk.days :
                                  IsIn(wk.filteredEvents[n], wk.days[key])}) = 1

\* C28 witness: for a week start later than midnight of the Monday the keys
\* run over the end of January; Wednesday's and Friday's buckets hold an
\* event each, the other three are empty
DateKeysAlignWitness ==
    /\ wk.done /\ wk.weekStart = Monday + 2
    /\ wk.weekDateKeys[1] = "2024-01-29" /\ wk.weekDateKeys[5] = "2024-02-02"
    /\ Len(wk.filteredEvents) = 2
    /\ Len(wk.days["2024-01-31"]) = 1 /\ Len(wk.days["2024-02-02"]) = 1
    /\ wk.days["2024-01-29"] = <<>> /\ wk.days["2024-01-30"] = <<>>
    /\ wk.days["2024-02-01"] = <<>>

\* C25: a render leaves the list of the calendar as it was, in length, order
\* and events; the merged list and the filtered list are arrays of their own
\* that hold the events in the order of the list, and the sort of a day's
\* array reorders that array and none of them.
DerivedViewsPure ==
    wk.done =>
        /\ wk.arrays[CalA.id] = wk.events
        /\ wk.arrays["events"] = wk.events
        /\ wk.arrays["filteredEvents"] = wk.filteredEvents
        /\ \A i \in 1..5 : wk.arrays[wk.weekDateKeys[i]] = wk.days[wk.weekDateKeys[i]]

\* C25 witness: the sort has reordered the array of a day, whose events stand
\* in another order in the list of the calendar
DerivedViewsPureWitness ==
    /\ wk.done
    /\ \E i \in 1..5 :
          LET OfDay(ev) == dayKey(ev) = wk.weekDateKeys[i]
          IN  /\ Len(wk.arrays[wk.weekDateKeys[i]]) >= 2
              /\ wk.arrays[wk.weekDateKeys[i]] # OfList(wk.arrays[CalA.id], OfDay)

----------------------------------------------------------------------------
(* getRefreshMinutes and the timer effect, on one calendar configuration *)

\* what refreshMinutes may hold
RefreshValues ==
    {JsNumber(n) : n \in (MIN_REFRESH - 3)..(MAX_REFRESH + 3)}
    \cup {JsNaN, JsNull, JsString("10"), JsString("")}

RefreshConfigs == {CalA} \cup {WithRefreshMinutes(CalA, v) : v \in RefreshValues}

RefreshInit ==
    /\ rf \in {[cal |-> c, done |-> FALSE, minutes |-> 0, timers |-> {}] :
                c \in RefreshConfigs}
    /\ nz = <<>>
    /\ wk = <<>>
    /\ nav = <<>>
    /\ ParseIdle
    /\ HookIdle

\* the timer effect runs for the configuration [rf.cal]
TimerEffect ==
    /\ ~rf.done
    /\ rf' = [rf EXCEPT !.done = TRUE,
                        !.minutes = getRefreshMinutes(rf.cal),
                        !.timers = NewTimers(<<rf.cal>>, 0)]
    /\ UNCHANGED <<nz, wk, nav, parseVars, clock, hookVars>>

RefreshNext == TimerEffect

SpecRefresh == RefreshInit /\ [][RefreshNext]_vars

----------------------------------------------------------------------------
(* Claims about the refresh interval, checked under SpecRefresh *)

\* refreshMinutes is a number from 1 to 60
ValidRefresh(cal) ==
    /\ "refreshMinutes" \in DOMAIN cal
    /\ cal.refreshMinutes.type = "number" /\ ~cal.refreshMinutes.nan
    /\ cal.refreshMinutes.value \in 1..60

----------------------------------------------------------------------------
(* weekStart and the three calls that move it *)

\* at most so many calls are made
MaxMoves == 3

\* d.getDay(): 0 is Sunday; day 0 of the clock is Monday 2024-01-01
getDay(d) == (DayNumber(d) + 1) % 7

\* d.getDate(): the day of the month
getDate(d) == DateOfDay(DayNumber(d), 1).date

\* d.setDate(n): the n-th day of d's month at d's time of day; n below 1 or
\* above the length of the month counts on into the months around it
setDate(d, n) == d + (n - getDate(d)) * DayTicks

\* mutant: Sunday is taken for the day before the week's Monday
getWeekStartSundayFirst(d) ==
    LET day == getDay(d)
        diff == getDate(d) - day + 1
    IN  startOfDay(setDate(d, diff))

getWeekStart(d) ==
    LET day == getDay(d)
        diff == getDate(d) - day + (IF day = 0 THEN -6 ELSE 1)
    IN  startOfDay(setDate(d, diff))

\* the updaters goToPrevWeek and goToNextWeek hand to setWeekStart
goToPrevWeek(d) == setDate(d, getDate(d) - 7)
goToNextWeek(d) == setDate(d, getDate(d) + 7)

\* the instants the hook is constructed at: Sunday 2024-03-31 to Saturday
\* 2024-04-06, at midnight and at the last tick of the day
NavClocks == {d * DayTicks + t : d \in 90..96, t \in {0, DayTicks - 1}}

\* the clock stops here
NavClockEnd == 100 * DayTicks

\* useState(() => getWeekStart(new Date())); op and op2 are the last call and
\* the call before it, from2 is weekStart before the call before, at is the
\* clock of the last call of goToThisWeek
NavInit ==
    /\ clock \in NavClocks
    /\ nav = [weekStart |-> getWeekStart(clock), moves |-> 0, op |-> "", op2 |-> "",
              from |-> getWeekStart(clock), from2 |-> getWeekStart(clock), at |-> clock]
    /\ nz = <<>>
    /\ wk = <<>>
    /\ rf = <<>>
    /\ pIn = [cal |-> CalA, vevents |-> <<>>]
    /\ ps = ParseStart
    /\ first = [done |-> FALSE, events |-> <<>>]
    /\ HookIdle

\* a call is made: the history moves on
NavAfter(op, weekStart) ==
    [nav EXCEPT !.weekStart = weekStart, !.moves = nav.moves + 1, !.op = op,
                !.op2 = nav.op, !.from = nav.weekStart, !.from2 = nav.from]

GoToPrevWeek ==
    /\ nav.moves < MaxMoves
    /\ nav' = NavAfter("goToPrevWeek", goToPrevWeek(nav.weekStart))
    /\ UNCHANGED <<nz, wk, rf, parseVars, clock, hookVars>>

GoToNextWeek ==
    /\ nav.moves < MaxMoves
    /\ nav' = NavAfter("goToNextWeek", goToNextWeek(nav.weekStart))
    /\ UNCHANGED <<nz, wk, rf, parseVars, clock, hookVars>>

GoToThisWeek ==
    /\ nav.moves < MaxMoves
    /\ nav' = [NavAfter("goToThisWeek", getWeekStart(clock)) EXCEPT !.at = clock]
    /\ UNCHANGED <<nz, wk, rf, parseVars, clock, hookVars>>

\* a day passes
NavDayPasses ==
    /\ clock + DayTicks < NavClockEnd
    /\ clock' = clock + DayTicks
    /\ UNCHANGED <<nav, nz, wk, rf, parseVars, hookVars>>

NavNext == GoToPrevWeek \/ GoToNextWeek \/ GoToThisWeek \/ NavDayPasses

SpecNav == NavInit /\ [][NavNext]_vars

----------------------------------------------------------------------------
(* Claims about weekStart, checked under SpecNav *)

\* C27: weekStart is midnight of a Monday after every sequence of calls;
\* goToNextWeek and then goToPrevWeek, or the two the other way round, give
\* the weekStart there was before them; goToThisWeek gives the Monday of the
\* week the clock's day lies in, for a Sunday the Monday six days before it.
WeekStartInvariant ==
    /\ nav.weekStart % DayTicks = 0
    /\ getDay(nav.weekStart) = 1
    /\ <<nav.op2, nav.op>> \in {<<"goToNextWeek", "goToPrevWeek">>,
                                <<"goToPrevWeek", "goToNextWeek">>}
          => nav.weekStart = nav.from2
    /\ nav.op \in {"", "goToThisWeek"} =>
          /\ nav.weekStart <= nav.at /\ nav.at < nav.weekStart + 7 * DayTicks
          /\ getDay(nav.at) = 0 => nav.weekStart = startOfDay(nav.at) - 6 * DayTicks

\* C27 witness: on Sunday 2024-03-31, as the third call made, goToThisWeek has
\* given Monday 2024-03-25, six days before
WeekStartInvariantWitness ==
    /\ nav.op = "goToThisWeek" /\ nav.moves = 3
    /\ getDay(nav.at) = 0 /\ getDate(nav.at) = 31
    /\ getDate(nav.weekStart) = 25
    /\ nav.weekStart = nav.at - (nav.at % DayTicks) - 6 * DayTicks

----------------------------------------------------------------------------
(* Claims about the normalizer and parseICS, checked under SpecText *)

\* the last line of a text is the terminator END:VCALENDAR
EndsWithTerminator(text) ==
    LET lines == ContentLines(text, 1, <<>>)
    IN  /\ Len(lines) > 0
        /\ Len(TrimEnd(lines[Len(lines)])) = 13
        /\ MatchesAt(lines[Len(lines)], 1, "END:VCALENDAR")

\* a text that lacks its last line END:VCALENDAR and nothing else
LacksTerminatorOnly(text) ==
    /\ HasBegin(text)
    /\ ~IcalParses(text)
    /\ IcalParses(TrimEnd(text) \o "\r\nEND:VCALENDAR")

\* the lines of a text: what stands between its line terminators, and after
\* the last of them
RECURSIVE SplitLines(_, _, _)
SplitLines(text, lastIndex, lines) ==
    LET rest == {i \in Terminators(text) : i >= lastIndex}
        m == IF rest = {} THEN Len(text) + 1 ELSE CHOOSE i \in rest : \A j \in rest : i <= j
        next == IF rest = {} /\ lastIndex > Len(text) THEN lines
                ELSE Append(lines, SubSeq(text, lastIndex, m - 1))
    IN  IF rest = {} THEN next
        ELSE SplitLines(text, m + TerminatorLen(text, m), next)

\* the lines of the text given to the normalizer, the byte order mark apart
InputLines ==
    SplitLines(IF Len(nz.text) > 0 /\ Ch(nz.text, 1) = BOM
               THEN SubSeq(nz.text, 2, Len(nz.text)) ELSE nz.text, 1, <<>>)

NormalizedLines == SplitLines(nz.normalized, 1, <<>>)

\* a line that is not empty, has neither ; nor : and does not begin with a
\* blank or a tab
BrokenLine(line) ==
    /\ Len(TrimStart(line)) > 0
    /\ ~\E k \in 1..Len(line) : Ch(line, k) \in {";", ":"}
    /\ Ch(line, 1) \notin {" ", "\t"}

\* sub stands somewhere in the text
Contains(text, sub) ==
    \E i \in 1..Len(text) : SubSeq(text, i, Min(Len(text), i + Len(sub) - 1)) = sub

\* the i-th line of the input is no line of the normalized text, and stands
\* in one of its lines behind a backslash and an n (white space at the end of
\* the text apart)
Repaired(i) ==
    /\ \A j \in 1..Len(NormalizedLines) : NormalizedLines[j] # InputLines[i]
    /\ \E j \in 1..Len(NormalizedLines) :
          Contains(NormalizedLines[j], "\\n" \o Trim(InputLines[i]))

\* C22: every line of the input but the first that is not empty, has neither
\* ; nor : and does not begin with a blank or a tab, the last line of a text
\* without a final line terminator included, is joined to the line before it
\* behind a backslash and an n, and is no line of the normalized text.
BrokenContinuationRepair ==
    nz.done => \A i \in 2..Len(InputLines) : BrokenLine(InputLines[i]) => Repaired(i)

\* every line of the input has a ; or a : or begins with a blank or a tab, and
\* the last line is END:VCALENDAR
ValidLines ==
    /\ Len(InputLines) > 0
    /\ \A i \in 1..Len(InputLines) :
          \/ \E k \in 1..Len(InputLines[i]) : Ch(InputLines[i], k) \in {";", ":"}
          \/ Len(InputLines[i]) > 0 /\ Ch(InputLines[i], 1) \in {" ", "\t"}
    /\ Len(TrimEnd(InputLines[Len(InputLines)])) = 13
    /\ MatchesAt(InputLines[Len(InputLines)], 1, "END:VCALENDAR")

\* C29: the normalized text of such an input has the lines of the input, as
\* many and in their order, each as it stood, the byte order mark in front of
\* the first and the white space at the end of the last apart.
ValidTextUnchanged ==
    (nz.done /\ ValidLines) =>
        /\ Len(NormalizedLines) = Len(InputLines)
        /\ \A i \in 1..Len(InputLines) - 1 : NormalizedLines[i] = InputLines[i]
        /\ NormalizedLines[Len(InputLines)] = TrimEnd(InputLines[Len(InputLines)])

\* C29 witness: a text with a byte order mark in front, a value folded over
\* lines that begin with a blank and a tab, and a blank behind END:VCALENDAR
\* has been normalized, and its seven lines stand
ValidTextUnchangedWitness ==
    /\ nz.done /\ ValidLines
    /\ Ch(nz.text, 1) = BOM
    /\ Len(InputLines) = 7
    /\ InputLines[4] = " y" /\ InputLines[5] = "\tz w"
    /\ InputLines[7] = "END:VCALENDAR "
    /\ Len(NormalizedLines) = 7 /\ NormalizedLines[7] = "END:VCALENDAR"

\* C12: for a text that contains BEGIN:VCALENDAR the normalized text ends
\* with the line END:VCALENDAR, and a text that lacks nothing but this last
\* line is parsed successfully.
TerminatorRepair ==
    (nz.done /\ HasBegin(nz.text)) =>
        /\ EndsWithTerminator(nz.normalized)
        /\ LacksTerminatorOnly(nz.text) => nz.out.ok

----------------------------------------------------------------------------
(* Claims about parseICSEvents, checked under SpecParse *)

\* the VEVENT whose while loop is running, or ran last
LoopEvent == pIn.vevents[IF ps.inLoop THEN ps.idx ELSE ps.idx - 1]

\* the events the running (or last) while loop has pushed
Emitted == SubSeq(ps.events, ps.base + 1, Len(ps.events))

\* the calendar is parsed and its last VEVENT was expanded by the while loop
ExpansionEnded ==
    /\ ParseDone(pIn.vevents, ps)
    /\ LoopEvent.recurring /\ LoopEvent.hasStart /\ ~LoopEvent.recurrenceId

\* the occurrences of a rule that lie inside the window, by their numbers
OccurrencesInWindow(event) ==
    {k \in 0..(clock + 90 * DayTicks - event.dtstart) \div event.interval :
        /\ IterHasNext(event, k)
        /\ IterOccurrence(event, k) >= clock - 7 * DayTicks
        /\ IterOccurrence(event, k) <= clock + 90 * DayTicks}

AllOccurrencesInWindow(event) ==
    /\ event.count > 0
    /\ IterOccurrence(event, 0) >= clock - 7 * DayTicks
    /\ IterOccurrence(event, event.count - 1) <= clock + 90 * DayTicks

Ascending(evs) == \A i \in 1..Len(evs) - 1 : evs[i].start < evs[i + 1].start
DistinctIds(evs) == \A i, j \in 1..Len(evs) : i # j => evs[i].id # evs[j].id

\* C7: a recurring VEVENT, also one whose rule repeats forever, yields at most
\* 500 events, none of them starting before the clock minus 7 days or after
\* the clock plus 90 days, and its loop makes at most 500 passes, so it ends.
RecurrenceBound ==
    ps.inLoop =>
        /\ Len(Emitted) <= 500
        /\ ps.k <= 500
        /\ ps.count = ps.k
        /\ \A i \in 1..Len(Emitted) :
              /\ Emitted[i].start >= clock - 7 * DayTicks
              /\ Emitted[i].start <= clock + 90 * DayTicks

\* C7 witness: a rule that repeats forever has reached the cap of 500 events
RecurrenceBoundWitness ==
    ps.inLoop /\ LoopEvent.count = 0 /\ Len(Emitted) = 500

\* C8: the occurrences before the window start do not count against the cap:
\* a recurring VEVENT yields all its occurrences inside the window, up to 500.
CapAccounting ==
    ExpansionEnded =>
        Len(Emitted) = Min(500, Cardinality(OccurrencesInWindow(LoopEvent)))

\* C9 as claimed: a rule of k occurrences, all inside the window, yields exactly
\* k events, in strictly ascending order of start, with distinct ids.
FiniteExpansionExact ==
    (ExpansionEnded /\ AllOccurrencesInWindow(LoopEvent)) =>
        /\ Len(Emitted) = LoopEvent.count
        /\ Ascending(Emitted)
        /\ DistinctIds(Emitted)

\* C9 as amended: a rule of k occurrences, all inside the window, yields exactly
\* min(k, 500) events, in strictly ascending order of start, with distinct ids.
FiniteExpansionCapped ==
    (ExpansionEnded /\ AllOccurrencesInWindow(LoopEvent)) =>
        /\ Len(Emitted) = Min(LoopEvent.count, 500)
        /\ Ascending(Emitted)
        /\ DistinctIds(Emitted)

\* C9 witness: the weekly rule of 10 occurrences has yielded its 10 events
FiniteExpansionWitness ==
    /\ ExpansionEnded /\ AllOccurrencesInWindow(LoopEvent)
    /\ LoopEvent.count = 10 /\ Len(Emitted) = 10

\* the VEVENT the for loop is about to handle is a non-recurring record with
\* a start time (and not the override of an occurrence, which is skipped)
AtPlainRecord ==
    /\ ~ParseDone(pIn.vevents, ps)
    /\ ~ps.inLoop
    /\ pIn.vevents[ps.idx].hasStart
    /\ ~pIn.vevents[ps.idx].recurring
    /\ ~pIn.vevents[ps.idx].recurrenceId
    /\ "throwsAt" \notin DOMAIN pIn.vevents[ps.idx]

\* a record that is malformed, the override of an occurrence, or without start
BadRecord(event) ==
    "throwsAt" \in DOMAIN event \/ event.recurrenceId \/ ~event.hasStart

\* the VEVENTs of the calendar without the bad ones
GoodRecords ==
    LET Good(event) == ~BadRecord(event) IN SelectSeq(pIn.vevents, Good)

\* a recurring record that fails in the n-th pass of its loop, n > 1
FailsPartWay(event) ==
    /\ ~event.recurrenceId /\ event.hasStart /\ event.recurring
    /\ "throwsAt" \in DOMAIN event /\ event.throwsAt > 1

\* the VEVENTs of the calendar without the bad ones, but with the first n - 1
\* occurrences of a recurring record that fails in the n-th pass of its loop
RecordsUntilFailure ==
    LET Kept(event) == ~BadRecord(event) \/ FailsPartWay(event)
        kept == SelectSeq(pIn.vevents, Kept)
    IN  [i \in 1..Len(kept) |->
            IF FailsPartWay(kept[i])
            THEN [f \in DOMAIN kept[i] \ {"throwsAt"} |->
                     IF f = "count" THEN kept[i].throwsAt - 1 ELSE kept[i][f]]
            ELSE kept[i]]

NonRecurringParse ==
    [][AtPlainRecord =>
         LET rec == pIn.vevents[ps.idx]
             ev == ps'.events[Len(ps'.events)]
         IN  /\ Len(ps'.events) = Len(ps.events) + 1
             /\ SubSeq(ps'.events, 1, Len(ps.events)) = ps.events
             /\ ev.start = rec.dtstart /\ ev.end = rec.dtend
             /\ ev.allDay = rec.isDate
             /\ ev.title = (IF Trim(rec.summary) = "" THEN "(No title)"
                            ELSE Trim(rec.summary))
             /\ ev.title # ""]_vars

\* C11 witness: the all-day record with a blank summary and the record with
\* the summary " Lunch " have each yielded their event
NonRecurringParseWitness ==
    /\ ParseDone(pIn.vevents, ps)
    /\ \E i, j \in 1..Len(ps.events) :
          /\ ps.events[i].title = "(No title)" /\ ps.events[i].allDay
          /\ ps.events[i].end = ps.events[i].start + DayTicks
          /\ ps.events[j].title = "Lunch" /\ ~ps.events[j].allDay

----------------------------------------------------------------------------
(* Claims about the hook, checked under Spec *)

\* the list stored for a calendar (none is an empty list)
Stored(id) == IF id \in DOMAIN eventsByCalendar THEN eventsByCalendar[id] ELSE <<>>

CalendarIds == {c.id : c \in Calendars}

\* the step taken is the end of a fetch, by fetchCalendar or by fetchAll
FetchEnded == last'.op \in {"fetchCalendar", "fetchAll"}

\* the step taken is fetchAll storing its result; the call that ended
FetchAllStored == last'.op = "fetchAll" /\ last'.commit
EndedRun == CHOOSE r \in runs : r \notin runs'

\* C1: a refresh of a calendar that fails (the fetch rejects, the status is no
\* success, the body has no BEGIN:VCALENDAR, or the calendar does not parse)
\* leaves the list stored for that calendar as it was, at the failure and when
\* the fetchAll the failure belongs to stores its result.
StaleRetention ==
    [][\A id \in CalendarIds :
          ((FetchEnded /\ ~last'.ok /\ last'.id = id)
              \/ (FetchAllStored /\ id \in last'.failed))
          => Stored(id)' = Stored(id)]_vars

\* C1 witness: a refresh has failed for a calendar that has events stored
StaleRetentionWitness ==
    /\ last.op \in {"fetchCalendar", "fetchAll"} /\ ~last.ok
    /\ Stored(last.id) # <<>>

\* C2: when a fetchAll with a failed fetch stores its result, every calendar
\* whose fetch succeeded has its newly parsed events stored, every calendar
\* whose fetch failed keeps the list it had, and every calendar of the
\* configuration was fetched: after a failed fetch the next one is issued.
FeedFailureIsolation ==
    [][/\ FetchAllStored =>
             /\ \A id \in DOMAIN EndedRun.updates :
                   eventsByCalendar'[id] = EndedRun.updates[id]
             /\ last'.ok => eventsByCalendar'[last'.id] = last'.parsed
             /\ \A id \in last'.failed : Stored(id)' = Stored(id)
             /\ last'.updated \cup last'.failed = Ids(EndedRun.cfg)
             /\ last'.updated \cap last'.failed = {}
       /\ (last'.op = "fetchAll" /\ ~last'.commit) =>
             \E q \in runs' : /\ q.cfg = EndedRun.cfg
                              /\ q.pos = EndedRun.pos + 1
                              /\ q.ticket = issued']_vars

\* C2 witness: a fetchAll has stored its result; the fetch of "a" failed, the
\* fetch of "b", issued after it, succeeded, and "a" has its cached events
FeedFailureIsolationWitness ==
    /\ last.op = "fetchAll" /\ last.commit
    /\ "a" \in last.failed /\ "b" \in last.updated
    /\ Stored("a") # <<>> /\ Stored("b") # <<>>

\* C3: the list stored for a calendar is never replaced by the result of a
\* fetch issued before the fetch that produced it, so that once no fetch is in
\* flight it is the result of the successful fetch issued last.
NoOlderResultStored ==
    [][\A id \in DOMAIN source \cap DOMAIN source' : source'[id] >= source[id]]_vars

\* C4: the result of a fetch that was started under an earlier configuration
\* is not applied when it arrives after the configuration has changed.
NoLateResult ==
    [][(FetchEnded /\ last'.render # render) =>
          eventsByCalendar' = eventsByCalendar]_vars

\* C5: the timers that are set are one per calendar of the configuration, all
\* set for it (none when it is empty or after the unmount), and a timer that
\* fires is one of the current configuration.
TimerOwnership ==
    /\ mounted =>
          /\ Cardinality(timers) = Len(config)
          /\ \A i \in 1..Len(config) :
                Cardinality({t \in timers : t.cal = config[i]}) = 1
    /\ ~mounted => timers = {}
    /\ \A t \in timers : t.render = render
    /\ last.op = "timer" => last.render = render

\* C5 witness: after a change of the configuration a timer has fired
TimerOwnershipWitness ==
    render > 0 /\ last.op = "timer" /\ Len(config) > 0

\* C6: in a fetchAll no calendar waits for the fetch of another: while the call
\* is running, the fetch of each of its calendars has been issued, and the
\* events it has parsed for a calendar are stored (or newer ones are).
RefreshIndependence ==
    \A r \in runs :
        /\ \A j \in 1..Len(r.cfg) : j <= r.pos
        /\ \A id \in DOMAIN r.tickets :
              id \in DOMAIN source /\ source[id] >= r.tickets[id]

\* C13: a fetch answered with a body that has no BEGIN:VCALENDAR (an HTML
\* page, a VEVENT outside of a calendar) fails and yields no events; the hook
\* records the failure of that calendar and leaves its list as it was.
NonCalendarRejection ==
    [][(FetchEnded /\ last'.noMarker) =>
          /\ ~last'.ok
          /\ last'.parsed = <<>>
          /\ error' # "" /\ error' # error
          /\ \E c \in Calendars : c.id = last'.id /\ error' = ErrorAfterFailure(error, c)
          /\ last'.op = "fetchAll" =>
                 last'.id \in last'.failed /\ last'.id \notin last'.updated
          /\ (IF last'.id \in DOMAIN eventsByCalendar' THEN eventsByCalendar'[last'.id]
              ELSE <<>>) = Stored(last'.id)]_vars

\* C13 witness: a periodic fetch of a calendar with a stored list was answered
\* with a body without the marker; the list is still stored, the error is set
NonCalendarRejectionWitness ==
    /\ last.op = "fetchCalendar" /\ last.noMarker /\ ~last.ok
    /\ Stored(last.id) # <<>>
    /\ error # ""

\* how often an event occurs in all the lists of the feeds
RECURSIVE OccursInFeeds(_, _)
OccursInFeeds(e, ids) ==
    IF ids = {} THEN 0
    ELSE LET id == CHOOSE x \in ids : TRUE
         IN  Occurs(e, eventsByCalendar[id]) + OccursInFeeds(e, ids \ {id})

StoredEvents ==
    UNION {{eventsByCalendar[id][i] : i \in 1..Len(eventsByCalendar[id])} :
              id \in DOMAIN eventsByCalendar}

\* C15: the merged list holds exactly the events of the feeds' lists, each as
\* often as it occurs there, nothing added and nothing dropped, and this is so
\* whatever the order in which the feeds are merged.
MergePureUnion ==
    /\ \E o \in Orders(DOMAIN eventsByCalendar) : events = Flat(eventsByCalendar, o)
    /\ \A o \in Orders(DOMAIN eventsByCalendar) :
          LET merged == Flat(eventsByCalendar, o)
          IN  /\ \A i \in 1..Len(merged) : merged[i] \in StoredEvents
              /\ \A e \in StoredEvents :
                    Occurs(e, merged) = OccursInFeeds(e, DOMAIN eventsByCalendar)

\* C15 witness: two feeds have events stored, and they are merged
MergePureUnionWitness ==
    /\ \E a, b \in DOMAIN eventsByCalendar :
          a # b /\ Len(eventsByCalendar[a]) = 1 /\ Len(eventsByCalendar[b]) = 4
    /\ Len(events) = 5

\* C23: when the configuration is loaded, every fetchAll has ended and no
\* fetch is in flight, the calendars that have a stored list are exactly the
\* calendars of the configuration: a removed calendar has none (its events
\* are not in the merged list), an added calendar has one.
FeedStateFollowsConfig ==
    (mounted /\ configLoaded /\ runs = {} /\ fetches = {})
        => DOMAIN eventsByCalendar = Ids(config)

\* the name of the calendar whose fetch ended in the step
EndedName == (CHOOSE c \in Calendars : c.id = last'.id).name

\* how often a name stands in the error string
Mentions(err, name) ==
    Cardinality({i \in 1..Len(err) :
                    SubSeq(err, i, Min(Len(err), i + Len(name) - 1)) = name})

\* C24: when a fetch of a calendar has ended, the error string names that
\* calendar iff the fetch failed: a failure is recorded at once, a success
\* removes the calendar from the string, and the string names a calendar
\* once however often it failed.
CurrentErrorPerFeed ==
    [][FetchEnded =>
          /\ ~last'.ok => Mentions(error', EndedName) = 1
          /\ last'.ok => Mentions(error', EndedName) = 0]_vars

\* the step taken is the end of a fetch the timer of a calendar started
PeriodicRefreshEnded ==
    last'.op = "fetchCalendar" /\ \E f \in fetches : fetches' = fetches \ {f}

\* C26: when the periodic refresh of a calendar ends, with events or with a
\* failure, the list stored for every other calendar is the list that was
\* stored before, and no entry but the calendar's own is added.
ExclusiveOwnership ==
    [][PeriodicRefreshEnded =>
          /\ DOMAIN eventsByCalendar' \subseteq DOMAIN eventsByCalendar \cup {last'.id}
          /\ \A id \in DOMAIN eventsByCalendar \ {last'.id} :
                /\ id \in DOMAIN eventsByCalendar'
                /\ eventsByCalendar'[id] = eventsByCalendar[id]]_vars

\* C26 witness: the periodic refresh of a calendar has stored events of its
\* own while events are stored for another calendar
ExclusiveOwnershipWitness ==
    /\ last.op = "fetchCalendar" /\ last.ok
    /\ last.id \in DOMAIN eventsByCalendar
    /\ eventsByCalendar[last.id] = last.parsed /\ last.parsed # <<>>
    /\ \E id \in DOMAIN eventsByCalendar \ {last.id} : eventsByCalendar[id] # <<>>

\* the step taken is the load of the mount effect resolving, the hook mounted
ConfigLoadEnded == last'.op = "configLoad" /\ loadPending /\ ~loadPending' /\ ~cancelled

\* the server answered with an array that is not empty
ServerHasData == last'.answer.isArray /\ Len(last'.answer.data) > 0

\* C30: when the load from the server resolves, the configuration and the
\* local store change only if the server sent an array that is not empty;
\* otherwise both stay, and the local configuration, if not empty, is sent to
\* the server; and if updateConfig was called before the load resolved, what
\* it saved stays, whatever the server sent.
ConfigLoadPrecedence ==
    [][ConfigLoadEnded =>
          /\ (config' # config \/ localStore' # localStore) => ServerHasData
          /\ ServerHasData => (render = 0 => config' = last'.answer.data)
          /\ ~ServerHasData =>
                /\ config' = config /\ localStore' = localStore
                /\ Len(localStore) > 0 => last'.posted /\ last'.body = localStore
                /\ Len(localStore) = 0 => ~last'.posted
          /\ render > 0 => config' = config /\ localStore' = localStore]_vars

\* C10: no two events of the merged list have the same id.
UniqueIds == DistinctIds(events)

====
